---- MODULE Spec2Model ----
(***************************************************************************)
(* Model of the Overshoot inference worker (overshoot/inference_worker.py):*)
(* difficulty classification, parameter resolution, single dispatch with   *)
(* retry and backoff, token streaming and batch dispatch with per-item     *)
(* fallback.  Text is modelled as sequences of one-character strings so    *)
(* that lower-casing and substring search are computed, not assumed.       *)
(***************************************************************************)
EXTENDS Integers, Sequences, FiniteSets, TLC

VARIABLES
    config,      \* self.config: the scaling table and the batch size
    reqs,        \* the InferenceRequest objects the caller holds
    op,          \* the operation in progress or finished ("none" before)
    pc,          \* "idle", the position of the operation in progress, "done"
    cur,         \* frame of the running infer() call
    bat,         \* frame of the running batch_infer() call
    strm,        \* frame of the running infer_stream() generator
    calls,       \* remote calls and backoff sleeps of the infer() call, the
                 \* chunk or the stream in progress (or last finished)
    chunks,      \* the chunks batch_infer has posted, in order
    seen,        \* which kinds of outcome the remote calls of the operation had
    all_responses, \* batch_infer's all_responses list
    result,      \* how the current operation ended
    prompt_in,   \* input of the classifier run
    classified,  \* output of the classifier run
    client,      \* self.client: "open", or "closed" after aclose()
    dispatched,  \* how many operations the caller has started anew
    comp         \* frame of the running ComplianceChecker.check_compliance()

vars == <<config, reqs, op, pc, cur, bat, strm, calls, chunks, seen,
          all_responses, result, prompt_in, classified, client, dispatched, comp>>

---------------------------------------------------------------------------
(* Bounds of the model.                                                    *)

MaxRequests == 3
MaxRetries == 3
MaxBatchSize == 2
MaxLines == 3
MaxWords == 2
MaxDispatches == 2
MaxRules == 3

---------------------------------------------------------------------------
(* DifficultyLevel and text helpers.                                       *)

EASY == "easy"
MEDIUM == "medium"
HARD == "hard"
EXPERT == "expert"
DifficultyLevel == {EASY, MEDIUM, HARD, EXPERT}
None == "None"

UpperCase == <<"A","B","C","D","E","F","G","H","I","J","K","L","M","N","O","P","Q","R","S","T","U","V","W","X","Y","Z">>
LowerCase == <<"a","b","c","d","e","f","g","h","i","j","k","l","m","n","o","p","q","r","s","t","u","v","w","x","y","z">>

\* str.lower() on one character
LowerChar(c) ==
    IF \E i \in 1..Len(UpperCase) : UpperCase[i] = c
    THEN LowerCase[CHOOSE i \in 1..Len(UpperCase) : UpperCase[i] = c]
    ELSE c

\* A lower() that leaves the text as it is.
LowerKeepsCase(s) == s

\* str.lower()
Lower(s) == [i \in 1..Len(s) |-> LowerChar(s[i])]

\* Python's `keyword in text` on strings: substring search
KeywordIn(keyword, text) ==
    \E i \in 0..(Len(text) - Len(keyword)) :
        SubSeq(text, i + 1, i + Len(keyword)) = keyword

expert_keywords ==
    { <<"p","r","o","v","e">>, <<"d","e","r","i","v","e">>,
      <<"t","h","e","o","r","e","m">>, <<"a","d","v","a","n","c","e","d">>,
      <<"c","o","m","p","l","e","x">> }
hard_keywords ==
    { <<"s","o","l","v","e">>, <<"c","a","l","c","u","l","a","t","e">>,
      <<"e","x","p","l","a","i","n">>, <<"w","h","y">>, <<"h","o","w">> }
medium_keywords ==
    { <<"w","h","a","t">>, <<"d","e","f","i","n","e">>,
      <<"d","e","s","c","r","i","b","e">> }

\* any(keyword in prompt_lower for keyword in keywords)
AnyKeyword(keywords, prompt_lower) ==
    \E keyword \in keywords : KeywordIn(keyword, prompt_lower)

\* A classifier that tests the medium keywords before the hard ones.
DetermineDifficultyMediumFirst(prompt) ==
    LET prompt_lower == Lower(prompt) IN
    IF AnyKeyword(expert_keywords, prompt_lower) THEN EXPERT
    ELSE IF AnyKeyword(medium_keywords, prompt_lower) THEN MEDIUM
    ELSE IF AnyKeyword(hard_keywords, prompt_lower) THEN HARD
    ELSE EASY

\* OvershootInferenceWorker._determine_difficulty
_determine_difficulty(prompt) ==
    LET prompt_lower == Lower(prompt) IN
    IF AnyKeyword(expert_keywords, prompt_lower) THEN EXPERT
    ELSE IF AnyKeyword(hard_keywords, prompt_lower) THEN HARD
    ELSE IF AnyKeyword(medium_keywords, prompt_lower) THEN MEDIUM
    ELSE EASY

---------------------------------------------------------------------------
(* The scaling configuration (self.config).  The table's values come from  *)
(* the YAML file the worker loads; temperatures are in tenths.             *)

Digits == <<"0","1","2","3","4","5","6","7","8","9">>
IsDigit(c) == \E i \in 1..Len(Digits) : Digits[i] = c
DigitValue(c) == (CHOOSE i \in 1..Len(Digits) : Digits[i] = c) - 1

\* str.replace("s", "")
RemoveS(text) == SelectSeq(text, LAMBDA c : c # "s")

\* float(text) accepts a non-empty run of decimal digits (the only numerals
\* the timeouts below use); anything else raises ValueError.
IsFloatLiteral(text) == Len(text) > 0 /\ \A i \in 1..Len(text) : IsDigit(text[i])

RECURSIVE FloatValue(_)
FloatValue(text) ==
    IF Len(text) = 0 THEN 0
    ELSE 10 * FloatValue(SubSeq(text, 1, Len(text) - 1)) + DigitValue(text[Len(text)])

\* float(params["timeout"].replace("s", "")) does not raise
TimeoutParses(params) == IsFloatLiteral(RemoveS(params.timeout))
\* float(params["timeout"].replace("s", ""))
TimeoutOf(params) == FloatValue(RemoveS(params.timeout))

ScalingTable ==
    [d \in DifficultyLevel |->
        CASE d = EASY   -> [temperature |-> 3, max_tokens |-> 256, num_passes |-> 1,
                            timeout |-> <<"1","0","s">>]
          [] d = MEDIUM -> [temperature |-> 5, max_tokens |-> 512, num_passes |-> 1,
                            timeout |-> <<"3","0","s">>]
          [] d = HARD   -> [temperature |-> 7, max_tokens |-> 1024, num_passes |-> 2,
                            timeout |-> <<"6","0","s">>]
          [] d = EXPERT -> [temperature |-> 8, max_tokens |-> 2048, num_passes |-> 3,
                            timeout |-> <<"1","2","0","s">>]]

\* The configurations a worker is constructed with.
Configs ==
    { [difficulty_levels |-> ScalingTable, batch_size |-> b] : b \in 1..MaxBatchSize }

\* Tables a malformed YAML file gives: the medium tier's timeout with a
\* wrong unit ("30x"), with the unit in front ("s30"), and a table
\* without the hard tier.
TableWrongUnit == [ScalingTable EXCEPT ![MEDIUM].timeout = <<"3","0","x">>]
TableUnitInFront == [ScalingTable EXCEPT ![MEDIUM].timeout = <<"s","3","0">>]
TableWithoutHard == [d \in DifficultyLevel \ {HARD} |-> ScalingTable[d]]

\* The configurations a worker can be constructed with, malformed ones
\* included.
ConfigsAny ==
    Configs \cup
    { [difficulty_levels |-> t, batch_size |-> 1] :
        t \in {TableWrongUnit, TableUnitInFront, TableWithoutHard} }

\* Every tier has a record, every timeout parses, the batch size is positive.
WellFormed(cfg) ==
    /\ DOMAIN cfg.difficulty_levels = DifficultyLevel
    /\ \A d \in DifficultyLevel : TimeoutParses(cfg.difficulty_levels[d])
    /\ cfg.batch_size >= 1

\* self.config[...]["difficulty_levels"][difficulty.value] raises KeyError
\* when the tier is absent
HasTier(difficulty) == difficulty \in DOMAIN config.difficulty_levels

\* A resolver that hands out the table's own dict (`return difficulty_config`).
GetInferenceParamsShared(difficulty) ==
    LET difficulty_config == config.difficulty_levels[difficulty] IN
    [temperature |-> difficulty_config.temperature,
     max_tokens  |-> difficulty_config.max_tokens,
     num_passes  |-> difficulty_config.num_passes,
     timeout     |-> difficulty_config.timeout,
     shared      |-> TRUE]

\* OvershootInferenceWorker._get_inference_params: a new dict holding the
\* four parameters of the tier.  `shared` tells whether the dict returned
\* is the one the table holds (it is not: the dict display at lines
\* 104-109 builds a new one), so that an assignment to it is known to
\* reach the table or not.
_get_inference_params(difficulty) ==
    LET difficulty_config == config.difficulty_levels[difficulty] IN
    [temperature |-> difficulty_config.temperature,
     max_tokens  |-> difficulty_config.max_tokens,
     num_passes  |-> difficulty_config.num_passes,
     timeout     |-> difficulty_config.timeout,
     shared      |-> FALSE]

\* The table after `params[key] = value` (lines 135, 137) on the params
\* resolved for `difficulty`: changed only if params is the table's dict.
ConfigAfterAssignment(cfg, params, difficulty, key, value) ==
    IF params.shared
    THEN [cfg EXCEPT !.difficulty_levels[difficulty][key] = value]
    ELSE cfg

---------------------------------------------------------------------------
(* InferenceRequest.  An Optional number is <<>> (None) or <<v>>.          *)

Unspecified == "unspecified"

\* InferenceRequest(prompt, difficulty=..., temperature=..., max_tokens=...):
\* the dataclass default of difficulty is DifficultyLevel.MEDIUM, of stream
\* False, of the overrides None.  arg_difficulty remembers what the caller
\* passed (it is not a field of the dataclass).
InferenceRequest(prompt, difficulty, temperature, max_tokens) ==
    [prompt      |-> prompt,
     difficulty  |-> IF difficulty = Unspecified THEN MEDIUM ELSE difficulty,
     stream      |-> FALSE,
     temperature |-> temperature,
     max_tokens  |-> max_tokens,
     arg_difficulty |-> difficulty]

PromptProveWhat == <<"P","r","o","v","e"," ","w","h","a","t">>
PromptSixTimesSeven == <<"W","h","a","t"," ","i","s"," ","6"," ","*"," ","7","?">>
PromptHi == <<"h","i">>

\* The prompts of the requests below, and the classifier's value on each
\* (tabulated once, so that a dispatch does not search the text again).
Prompts == {PromptProveWhat, PromptSixTimesSeven, PromptHi}
Classification == [prompt \in Prompts |-> _determine_difficulty(prompt)]

\* A dispatch that classifies the prompt whatever the request's difficulty.
ResolvedDifficultyAlways(request) == Classification[request.prompt]

\* `if request.difficulty is None: request.difficulty =
\* self._determine_difficulty(...)` (lines 127-128, 204-205, 261-262): the
\* difficulty the request has afterwards.
ResolvedDifficulty(request) ==
    IF request.difficulty = None THEN Classification[request.prompt]
    ELSE request.difficulty

\* The constructor calls the caller makes: prompts of three tiers; the
\* difficulty left out, passed as None, or pre-set; each override present
\* and absent.  The first two requests end up in the same tier.
RequestInputs ==
    { [prompt |-> PromptProveWhat,     difficulty |-> Unspecified,
       temperature |-> <<>>,  max_tokens |-> <<>>],
      [prompt |-> PromptSixTimesSeven, difficulty |-> None,
       temperature |-> <<9>>, max_tokens |-> <<>>],
      [prompt |-> PromptHi,            difficulty |-> HARD,
       temperature |-> <<>>,  max_tokens |-> <<64>>] }

---------------------------------------------------------------------------
(* The remote service: what one call can come back with.                   *)

\* httpx.HTTPError covers a transport failure, a timeout and the
\* HTTPStatusError that raise_for_status() raises.
HTTPErrorKinds == {"transport_error", "timeout", "http_status"}

NoBody ==
    [has_text |-> FALSE, model |-> "", cluster_id |-> "", tokens_generated |-> <<>>,
     latency_ms |-> <<>>]

\* JSON bodies of POST /v1/inference and items of a batch results array:
\* complete, text only, and without text.
FullBody ==
    [has_text |-> TRUE,  model |-> "remote-model", cluster_id |-> "cluster-1",
     tokens_generated |-> <<17>>, latency_ms |-> <<5>>]
TextOnlyBody ==
    [has_text |-> TRUE,  model |-> "", cluster_id |-> "", tokens_generated |-> <<>>,
     latency_ms |-> <<>>]
NoTextBody ==
    [has_text |-> FALSE, model |-> "remote-model", cluster_id |-> "cluster-1",
     tokens_generated |-> <<17>>, latency_ms |-> <<5>>]
\* A complete body of a cluster that the service names "error".
ErrorNamedBody ==
    [has_text |-> TRUE,  model |-> "remote-model", cluster_id |-> "error",
     tokens_generated |-> <<17>>, latency_ms |-> <<5>>]
Bodies == {FullBody, TextOnlyBody, NoTextBody, ErrorNamedBody}

SingleOutcomes ==
    [kind : HTTPErrorKinds \cup {"not_json"}, body : {NoBody}]
    \cup [kind : {"json"}, body : Bodies]

\* The results arrays a batch call for n requests can come back with: of
\* every length up to n + 1, complete items with at most one item that
\* has no text.
ResultArrays(n) ==
    UNION { { [p \in 1..m |-> IF p = q THEN NoTextBody ELSE FullBody] : q \in 0..m }
            : m \in 0..(n + 1) }

\* POST /v1/inference/batch: an HTTP error, a body that is not JSON, a JSON
\* body without "results", or a results array.
BatchOutcomes(n) ==
    [kind : HTTPErrorKinds \cup {"not_json", "no_results"}, results : {<<>>}]
    \cup [kind : {"json"}, results : ResultArrays(n)]

\* One entry of the log of an operation: a remote call or a backoff sleep.
\* `outcome` is how the call came back: "http_error", "malformed" or "ok".
\* `nresults` is the length of the results array of a batch call.
PostEvent(url, r, body, timeout, outcome, nresults) ==
    [kind |-> "post", url |-> url, req |-> r, body |-> body,
     timeout |-> timeout, seconds |-> 0, outcome |-> outcome,
     nresults |-> nresults]
\* A request attempted on the client after aclose(): httpx raises
\* RuntimeError and nothing is sent.
ClosedEvent(url) ==
    [kind |-> "closed", url |-> url, req |-> 0, body |-> <<>>,
     timeout |-> 0, seconds |-> 0, outcome |-> "", nresults |-> 0]
SleepEvent(seconds) ==
    [kind |-> "sleep", url |-> "", req |-> 0, body |-> <<>>,
     timeout |-> 0, seconds |-> seconds, outcome |-> "", nresults |-> 0]

\* Which outcomes the remote calls of an operation had so far.
\* `batch_malformed`: a batch call came back malformed; `misaligned`: a
\* results array was not as long as its chunk; `data`: the body of the
\* last answer to a post to /v1/inference.
NoneSeen == [http_error |-> FALSE, malformed |-> FALSE, ok |-> FALSE,
             batch_malformed |-> FALSE, misaligned |-> FALSE, data |-> NoBody]
See(s, class) ==
    [s EXCEPT !.http_error = @ \/ class = "http_error",
              !.malformed = @ \/ class = "malformed",
              !.ok = @ \/ class = "ok"]

---------------------------------------------------------------------------
(* InferenceResponse.  `req` and `index` are not fields of the dataclass:  *)
(* they remember the request whose difficulty was recorded and the         *)
(* position of the result the response was built from.                     *)

SelfModel == "configured-model"

NoResponse ==
    [text |-> "", model |-> "", cluster_id |-> "", latency_ms |-> 0,
     tokens_generated |-> 0, difficulty_used |-> None, req |-> 0, index |-> 0]

\* data.get(key, default) on the optional fields of a body
GetModel(body) == IF body.model = "" THEN SelfModel ELSE body.model
\* A lookup of cluster_id without a default.
GetClusterIdNoDefault(body) == body.cluster_id
GetClusterId(body) == IF body.cluster_id = "" THEN "unknown" ELSE body.cluster_id
GetTokens(body) == IF body.tokens_generated = <<>> THEN 0 ELSE body.tokens_generated[1]

\* infer's InferenceResponse(...) for a body that has text; the measured
\* latency (datetime.now() - start_time) is some positive number
SingleResponse(body, r, difficulty) ==
    [text |-> "text", model |-> GetModel(body), cluster_id |-> GetClusterId(body),
     latency_ms |-> 1, tokens_generated |-> GetTokens(body),
     difficulty_used |-> difficulty, req |-> r, index |-> 0]

\* batch_infer's InferenceResponse(...) for the j-th result of a chunk
BatchResponse(body, j, r, difficulty) ==
    [text |-> "text", model |-> GetModel(body), cluster_id |-> GetClusterId(body),
     latency_ms |-> IF body.latency_ms = <<>> THEN 0 ELSE body.latency_ms[1],
     tokens_generated |-> GetTokens(body),
     difficulty_used |-> difficulty, req |-> r, index |-> j]

\* batch_infer's error response for a request whose fallback failed
ErrorResponse(r, difficulty) ==
    [text |-> "Error", model |-> SelfModel, cluster_id |-> "error",
     latency_ms |-> 0, tokens_generated |-> 0,
     difficulty_used |-> difficulty, req |-> r, index |-> 0]

---------------------------------------------------------------------------
(* State of the operations.                                                *)

NoParams == [temperature |-> 0, max_tokens |-> 0, num_passes |-> 0, timeout |-> <<>>,
             shared |-> FALSE]
NoPayload == [temperature |-> 0, max_tokens |-> 0, stream |-> FALSE, num_passes |-> 0]

\* infer(), the call in progress or last finished: the request, `retries`,
\* the loop variable, params and payload, and whether batch_infer called it
NoFrame ==
    [req |-> 0, retries |-> 0, attempt |-> 0, params |-> NoParams,
     payload |-> NoPayload, nested |-> FALSE]

\* batch_infer(): `requests`, grouped_requests in insertion order, the
\* group in progress (g), the chunk's offset i in it, and the position j
\* in the chunk of the request being retried singly (0: none); `batch` is
\* the chunk last posted and `before` the length of all_responses then.
NoBatch ==
    [requests |-> <<>>, groups |-> <<>>, g |-> 0, i |-> 0, j |-> 0,
     batch |-> <<>>, before |-> 0]

\* infer_stream(): the request, params and payload; the lines the endpoint
\* emits on the open stream and whether the connection breaks after them;
\* the number of lines read and the tokens yielded; `open`: the streaming
\* connection is held
NoStream ==
    [req |-> 0, params |-> NoParams, payload |-> NoPayload, body |-> <<>>,
     broken |-> FALSE, read |-> 0, yielded |-> <<>>, open |-> FALSE]

\* What get_cluster_status returns: the remote status JSON, or the
\* degraded report {"error": ..., "clusters": []}.
NoReport == [error |-> "", clusters |-> <<>>, remote |-> FALSE]

\* How an operation ended: "returned" or "raised", the exception's type and,
\* for a stream error, the message it carries; infer's response;
\* get_cluster_status's report.
NoResult ==
    [status |-> "none", error |-> "", message |-> "", response |-> NoResponse,
     report |-> NoReport]

\* check_compliance(): self.rules with, for each rule, whether _check_rule
\* finds the input compliant with it; the number of rules the loop has
\* gone through; violations (the positions of the rules violated, in
\* order), highest_severity and action; and what is returned.
NoCompliance ==
    [at |-> "none", rules |-> <<>>, k |-> 0, violations |-> <<>>,
     highest_severity |-> None, action |-> "allow",
     is_compliant |-> TRUE, message_of |-> 0]

Init ==
    /\ config \in Configs
    /\ reqs = <<>>
    /\ op = "none"
    /\ pc = "idle"
    /\ cur = NoFrame
    /\ bat = NoBatch
    /\ strm = NoStream
    /\ calls = <<>>
    /\ chunks = <<>>
    /\ seen = NoneSeen
    /\ all_responses = <<>>
    /\ result = NoResult
    /\ prompt_in = <<>>
    /\ classified = None
    /\ client = "open"
    /\ dispatched = 0
    /\ comp = NoCompliance

\* The caller builds a request object.
make_request ==
    /\ pc = "idle"
    /\ Len(reqs) < MaxRequests
    /\ \E a \in RequestInputs :
         reqs' = Append(reqs, InferenceRequest(a.prompt, a.difficulty,
                                               a.temperature, a.max_tokens))
    /\ UNCHANGED <<config, op, pc, cur, bat, strm, calls, chunks, seen,
                   all_responses, result, prompt_in, classified,
                   client, dispatched, comp>>

\* The frame of an infer() call that has ended: kept when the caller of
\* the worker made the call, dropped when batch_infer made it.
Finished(frame) == IF frame.nested THEN NoFrame ELSE frame

\* An operation returns or raises to the caller of the worker.
Ends(status, error, response) ==
    /\ pc' = "done"
    /\ result' = [status |-> status, error |-> error, message |-> "",
                  response |-> response, report |-> NoReport]

\* batch[...] of the chunk in progress
Chunk(b) ==
    LET req_group == b.groups[b.g].reqs
        last == IF b.i + config.batch_size < Len(req_group)
                THEN b.i + config.batch_size ELSE Len(req_group)
    IN  SubSeq(req_group, b.i + 1, last)

\* A chunk loop that posts full chunks only.
NextChunkFullOnly(b) ==
    IF b.i + 2 * config.batch_size <= Len(b.groups[b.g].reqs)
    THEN [b EXCEPT !.i = @ + config.batch_size, !.j = 0]
    ELSE [b EXCEPT !.g = @ + 1, !.i = 0, !.j = 0]

\* the next iteration of `for i in range(0, len(req_group), batch_size)`,
\* or of `for difficulty, req_group in grouped_requests.items()`
NextChunk(b) ==
    IF b.i + config.batch_size < Len(b.groups[b.g].reqs)
    THEN [b EXCEPT !.i = @ + config.batch_size, !.j = 0]
    ELSE [b EXCEPT !.g = @ + 1, !.i = 0, !.j = 0]

\* A fallback loop that gives up the chunk after its first request.
NextItemFirstOnly(b) == NextChunk(b)

\* the next iteration of the fallback loop `for req in batch`
NextItem(b) ==
    IF b.j < Len(Chunk(b)) THEN [b EXCEPT !.j = @ + 1] ELSE NextChunk(b)

BatchFinished(b) == b.g > Len(b.groups)

\* batch_infer goes on with frame b: `return all_responses` after the last
\* group, else the next single dispatch or the next chunk.
BatchContinues(b) ==
    /\ bat' = b
    /\ IF BatchFinished(b) THEN Ends("returned", "", NoResponse)
       ELSE /\ pc' = IF b.j > 0 THEN "batch_fallback" ELSE "batch_chunk"
            /\ result' = NoResult

\* A fallback loop that lets the exception of a failed single dispatch
\* leave batch_infer.
InferEndsPropagates(nested, r, status, error, response, rq) ==
    IF ~nested
    THEN /\ Ends(status, error, response)
         /\ all_responses' = <<>>
         /\ bat' = NoBatch
    ELSE IF status = "raised"
    THEN /\ Ends(status, error, response)
         /\ UNCHANGED <<all_responses, bat>>
    ELSE /\ all_responses' = Append(all_responses, response)
         /\ BatchContinues(NextItem(bat))

\* infer() ends.  Called by the caller of the worker, the outcome is the
\* operation's.  Called by batch_infer's fallback, a response is appended
\* and anything raised (except Exception) becomes an error response.
InferEnds(nested, r, status, error, response, rq) ==
    IF ~nested
    THEN /\ Ends(status, error, response)
         /\ all_responses' = <<>>
         /\ bat' = NoBatch
    ELSE /\ all_responses' =
               Append(all_responses,
                      IF status = "returned" THEN response
                      ELSE ErrorResponse(r, rq[r].difficulty))
         /\ BatchContinues(NextItem(bat))

\* infer(), lines 126-152: classification when the difficulty is None,
\* parameter resolution, overrides, payload, start_time; then the loop
\* header (with retries = 0 the loop is skipped and line 186 raises).
\* The log starts anew with each infer() call.
InferEntry(r, retries, nested) ==
    LET difficulty == ResolvedDifficulty(reqs[r])
        rq == [reqs EXCEPT ![r].difficulty = difficulty]
        request == rq[r]
    IN  /\ reqs' = rq
        /\ calls' = <<>>
        /\ IF ~HasTier(difficulty)
           THEN /\ InferEnds(nested, r, "raised", "KeyError", NoResponse, rq)
                /\ cur' = NoFrame
                /\ config' = config
           ELSE LET base == _get_inference_params(difficulty)
                    with_temperature ==
                        IF request.temperature # <<>>
                        THEN ConfigAfterAssignment(config, base, difficulty,
                                 "temperature", request.temperature[1])
                        ELSE config
                    with_max_tokens ==
                        IF request.max_tokens # <<>>
                        THEN ConfigAfterAssignment(with_temperature, base, difficulty,
                                 "max_tokens", request.max_tokens[1])
                        ELSE with_temperature
                    params == [base EXCEPT
                        !.temperature = IF request.temperature # <<>>
                                        THEN request.temperature[1] ELSE @,
                        !.max_tokens = IF request.max_tokens # <<>>
                                       THEN request.max_tokens[1] ELSE @]
                    payload == [temperature |-> params.temperature,
                                max_tokens  |-> params.max_tokens,
                                stream      |-> request.stream,
                                num_passes  |-> params.num_passes]
                    frame == [req |-> r, retries |-> retries, attempt |-> 0,
                              params |-> params, payload |-> payload,
                              nested |-> nested]
                IN  /\ config' = with_max_tokens
                    /\ cur' = IF retries = 0 THEN Finished(frame) ELSE frame
                    /\ IF retries = 0
                       THEN InferEnds(nested, r, "raised", "Exception", NoResponse, rq)
                       ELSE
                         /\ pc' = "infer_post"
                         /\ result' = NoResult
                         /\ all_responses' = IF nested THEN all_responses ELSE <<>>
                         /\ bat' = IF nested THEN bat ELSE NoBatch

\* worker.infer(request, retries) called by the caller of the worker
infer ==
    /\ pc = "idle"
    /\ \E r \in 1..Len(reqs), retries \in 0..MaxRetries :
         /\ op' = "infer"
         /\ InferEntry(r, retries, FALSE)
    /\ strm' = NoStream
    /\ chunks' = <<>>
    /\ seen' = NoneSeen
    /\ UNCHANGED <<prompt_in, classified, client, dispatched, comp>>

\* The class of an outcome kept in the log.
OutcomeClass(o) ==
    IF o.kind \in HTTPErrorKinds THEN "http_error"
    ELSE IF o.kind = "json" /\ o.body.has_text THEN "ok"
    ELSE "malformed"

\* A retry loop that sleeps after the last failed attempt too.
SleepsAgainSleepAfterLast(attempt, retries) == attempt < retries

\* `if attempt < retries - 1` (line 181): sleep and try again, else raise
SleepsAgain(attempt, retries) == attempt < retries - 1

\* asyncio.sleep(2 ** attempt)
Backoff(attempt) == 2 ^ attempt

\* One iteration of infer()'s retry loop, lines 156-184: the post, then the
\* response built from the body, or the except clause for httpx.HTTPError.
\* float() of the timeout is evaluated before the post; its ValueError,
\* the JSONDecodeError of response.json() and the KeyError of data["text"]
\* are not httpx.HTTPError and leave infer() at once.
infer_attempt ==
    /\ pc = "infer_post"
    /\ LET r == cur.req IN
       IF ~TimeoutParses(cur.params)
       THEN /\ InferEnds(cur.nested, r, "raised", "ValueError", NoResponse, reqs)
            /\ cur' = Finished(cur)
            /\ UNCHANGED <<calls, seen>>
       ELSE IF client = "closed"
       THEN /\ InferEnds(cur.nested, r, "raised", "RuntimeError", NoResponse, reqs)
            /\ cur' = Finished(cur)
            /\ calls' = Append(calls, ClosedEvent("/v1/inference"))
            /\ seen' = seen
       ELSE \E o \in SingleOutcomes :
            LET event == PostEvent("/v1/inference", r, cur.payload,
                                   TimeoutOf(cur.params), OutcomeClass(o), 0)
                log == Append(calls, event)
            IN  /\ seen' = [See(seen, OutcomeClass(o)) EXCEPT !.data = o.body]
                /\ IF o.kind \in HTTPErrorKinds
                   THEN IF SleepsAgain(cur.attempt, cur.retries)
                        THEN /\ calls' = Append(log, SleepEvent(Backoff(cur.attempt)))
                             /\ cur' = [cur EXCEPT !.attempt = @ + 1]
                             /\ UNCHANGED <<pc, result, all_responses, bat>>
                        ELSE /\ calls' = log
                             /\ cur' = Finished(cur)
                             /\ InferEnds(cur.nested, r, "raised", "HTTPError",
                                          NoResponse, reqs)
                   ELSE /\ calls' = log
                        /\ cur' = Finished(cur)
                        /\ IF o.kind = "not_json"
                           THEN InferEnds(cur.nested, r, "raised", "JSONDecodeError",
                                          NoResponse, reqs)
                           ELSE IF ~o.body.has_text
                           THEN InferEnds(cur.nested, r, "raised", "KeyError",
                                          NoResponse, reqs)
                           ELSE InferEnds(cur.nested, r, "returned", "",
                                 SingleResponse(o.body, r, reqs[r].difficulty),
                                 reqs)
    /\ UNCHANGED <<config, reqs, op, strm, chunks, prompt_in, classified,
                   client, dispatched, comp>>

---------------------------------------------------------------------------
(* batch_infer.                                                            *)

DefaultRetries == 3
BatchTimeout == 60

\* grouped_requests after the loop of lines 260-267 over `requests`: the
\* groups in the order in which their difficulty first occurs, each with
\* its requests in input order.  rq holds the requests as classified.
RECURSIVE GroupedRequests(_, _)
GroupedRequests(requests, rq) ==
    IF Len(requests) = 0 THEN <<>>
    ELSE LET before == GroupedRequests(SubSeq(requests, 1, Len(requests) - 1), rq)
             req == requests[Len(requests)]
             difficulty == rq[req].difficulty
         IN  IF \E k \in 1..Len(before) : before[k].difficulty = difficulty
             THEN [k \in 1..Len(before) |->
                      IF before[k].difficulty = difficulty
                      THEN [before[k] EXCEPT !.reqs = Append(@, req)]
                      ELSE before[k]]
             ELSE Append(before, [difficulty |-> difficulty, reqs |-> <<req>>])

\* worker.batch_infer(requests), lines 258-271: the requests are the first
\* k objects the caller holds; those whose difficulty is None are
\* classified in place; then the first chunk, or `return all_responses`
\* for an empty list.
batch_infer ==
    /\ pc = "idle"
    /\ \E k \in 0..Len(reqs) :
         LET requests == [n \in 1..k |-> n]
             rq == [r \in 1..Len(reqs) |->
                      IF r <= k
                      THEN [reqs[r] EXCEPT !.difficulty = ResolvedDifficulty(reqs[r])]
                      ELSE reqs[r]]
         IN  /\ reqs' = rq
             /\ BatchContinues([requests |-> requests,
                                groups |-> GroupedRequests(requests, rq),
                                g |-> 1, i |-> 0, j |-> 0,
                                batch |-> <<>>, before |-> 0])
    /\ op' = "batch_infer"
    /\ calls' = <<>>
    /\ chunks' = <<>>
    /\ seen' = NoneSeen
    /\ all_responses' = <<>>
    /\ cur' = NoFrame
    /\ strm' = NoStream
    /\ UNCHANGED <<config, prompt_in, classified,
                   client, dispatched, comp>>

\* One item of batch_payload["requests"], lines 282-289
BatchItem(request, r) ==
    [req |-> r,
     temperature |-> _get_inference_params(request.difficulty).temperature,
     max_tokens  |-> _get_inference_params(request.difficulty).max_tokens]

\* The first result the loop of lines 303-312 fails on: one without text
\* (KeyError) or one past the end of the chunk (IndexError); 0 if none.
FirstBadResult(results, n) ==
    IF \E p \in 1..Len(results) : ~results[p].has_text \/ p > n
    THEN CHOOSE p \in 1..Len(results) :
            /\ ~results[p].has_text \/ p > n
            /\ \A q \in 1..(p - 1) : results[q].has_text /\ q <= n
    ELSE 0

\* One chunk of batch_infer, lines 276-314: the payload, the batch call,
\* and on success one response for each element of data["results"].  An
\* httpx.HTTPError leads to the fallback loop; every other exception
\* (KeyError of a missing tier, of "results" or of "text", JSONDecodeError,
\* IndexError of batch[j]) leaves batch_infer.
batch_chunk ==
    /\ pc = "batch_chunk"
    /\ LET batch == Chunk(bat) IN
       IF \E n \in 1..Len(batch) : ~HasTier(reqs[batch[n]].difficulty)
       THEN /\ Ends("raised", "KeyError", NoResponse)
            /\ UNCHANGED <<bat, calls, chunks, seen, all_responses>>
       ELSE IF client = "closed"
       THEN /\ Ends("raised", "RuntimeError", NoResponse)
            /\ calls' = <<ClosedEvent("/v1/inference/batch")>>
            /\ UNCHANGED <<bat, chunks, seen, all_responses>>
       ELSE \E o \in BatchOutcomes(Len(batch)) :
            LET items == [n \in 1..Len(batch) |-> BatchItem(reqs[batch[n]], batch[n])]
                bad == FirstBadResult(o.results, Len(batch))
                class == IF o.kind \in HTTPErrorKinds THEN "http_error"
                         ELSE IF o.kind = "json" /\
                                 \A p \in 1..Len(o.results) : o.results[p].has_text
                         THEN "ok" ELSE "malformed"
                built == [p \in 1..(IF bad = 0 THEN Len(o.results) ELSE bad - 1) |->
                            BatchResponse(o.results[p], p, batch[p],
                                          reqs[batch[p]].difficulty)]
                posted == [bat EXCEPT !.batch = batch, !.before = Len(all_responses)]
            IN  /\ calls' = <<PostEvent("/v1/inference/batch", 0, [requests |-> items],
                                        BatchTimeout, class, Len(o.results))>>
                /\ chunks' = Append(chunks, batch)
                /\ seen' = [See(seen, class) EXCEPT
                               !.batch_malformed = @ \/ class = "malformed",
                               !.misaligned = @ \/ (o.kind = "json" /\
                                                    Len(o.results) # Len(batch))]
                /\ IF o.kind \in HTTPErrorKinds
                   THEN /\ bat' = [posted EXCEPT !.j = 1]
                        /\ pc' = "batch_fallback"
                        /\ UNCHANGED <<result, all_responses>>
                   ELSE IF o.kind = "not_json"
                   THEN /\ Ends("raised", "JSONDecodeError", NoResponse)
                        /\ bat' = posted
                        /\ UNCHANGED all_responses
                   ELSE IF o.kind = "no_results"
                   THEN /\ Ends("raised", "KeyError", NoResponse)
                        /\ bat' = posted
                        /\ UNCHANGED all_responses
                   ELSE /\ all_responses' = all_responses \o built
                        /\ IF bad = 0
                           THEN BatchContinues(NextChunk(posted))
                           ELSE /\ Ends("raised",
                                        IF o.results[bad].has_text THEN "IndexError"
                                        ELSE "KeyError", NoResponse)
                                /\ bat' = posted
    /\ UNCHANGED <<config, reqs, op, cur, strm, prompt_in, classified,
                   client, dispatched, comp>>

\* The fallback loop of lines 316-330 reaches a request of the failed
\* chunk: `await self.infer(req)` with the default number of retries.
batch_fallback ==
    /\ pc = "batch_fallback"
    /\ InferEntry(Chunk(bat)[bat.j], DefaultRetries, TRUE)
    /\ UNCHANGED <<op, strm, chunks, seen, prompt_in, classified,
                   client, dispatched, comp>>

---------------------------------------------------------------------------
(* infer_stream.                                                           *)

\* The lines response.aiter_lines() can deliver: an empty line, a line that
\* is not JSON, {"token": v}, {"error": m}, a JSON object with neither key,
\* and a JSON number.
StreamLines ==
    [kind : {"empty", "not_json", "object", "number"}, value : {""}]
    \cup [kind : {"token"}, value : {"a", "b"}]
    \cup [kind : {"error"}, value : {"x"}]

\* The response bodies of the streaming endpoint: up to MaxLines lines.
StreamBodies == UNION { [1..n -> StreamLines] : n \in 0..MaxLines }

\* worker.infer_stream(request) up to the stream's opening, lines 201-219:
\* the stream flag is forced, a difficulty of None is classified, the
\* payload takes the tier's parameters.
infer_stream ==
    /\ pc = "idle"
    /\ \E r \in 1..Len(reqs) :
         LET difficulty == ResolvedDifficulty(reqs[r])
             rq == [reqs EXCEPT ![r].stream = TRUE, ![r].difficulty = difficulty]
         IN  /\ reqs' = rq
             /\ IF ~HasTier(difficulty)
                THEN /\ Ends("raised", "KeyError", NoResponse)
                     /\ strm' = NoStream
                ELSE LET params == _get_inference_params(difficulty) IN
                     /\ strm' = [req |-> r, params |-> params,
                                 payload |-> [temperature |-> params.temperature,
                                              max_tokens  |-> params.max_tokens,
                                              stream      |-> TRUE,
                                              num_passes  |-> params.num_passes],
                                 body |-> <<>>, broken |-> FALSE, read |-> 0,
                                 yielded |-> <<>>, open |-> FALSE]
                     /\ pc' = "stream_open"
                     /\ result' = NoResult
    /\ op' = "infer_stream"
    /\ calls' = <<>>
    /\ chunks' = <<>>
    /\ seen' = NoneSeen
    /\ all_responses' = <<>>
    /\ cur' = NoFrame
    /\ bat' = NoBatch
    /\ UNCHANGED <<config, prompt_in, classified,
                   client, dispatched, comp>>

\* A generator that opens the stream again after a failed stream.
StreamEndsRetries(status, error, message) ==
    IF message = "Stream inference failed"
    THEN /\ pc' = "stream_open"
         /\ result' = NoResult
    ELSE /\ pc' = "done"
         /\ result' = [status |-> status, error |-> error, message |-> message,
                       response |-> NoResponse, report |-> NoReport]

\* The generator ends: exhausted ("returned") or with an exception.
StreamEnds(status, error, message) ==
    /\ pc' = "done"
    /\ result' = [status |-> status, error |-> error, message |-> message,
                  response |-> NoResponse, report |-> NoReport]

\* A stream that is released only when the generator returns.
ExitStreamOnReturnOnly(s, how) ==
    IF how = "returned" THEN [s EXCEPT !.open = FALSE] ELSE s

\* The exit of `async with self.client.stream(...) as response` (line 222):
\* the connection is released however the block is left (`how`: by
\* "returned", "raised", "closed" or "cancelled").
ExitStream(s, how) == [s EXCEPT !.open = FALSE]

\* self.client.stream("POST", "/v1/inference/stream", ...) and
\* raise_for_status(), lines 222-228.  An httpx.HTTPError becomes
\* Exception("Stream inference failed: ...") at line 243.
stream_open ==
    /\ pc = "stream_open"
    /\ IF ~TimeoutParses(strm.params)
       THEN /\ StreamEnds("raised", "ValueError", "")
            /\ UNCHANGED <<calls, seen, strm>>
       ELSE IF client = "closed"
       THEN /\ StreamEnds("raised", "RuntimeError", "")
            /\ calls' = Append(calls, ClosedEvent("/v1/inference/stream"))
            /\ UNCHANGED <<seen, strm>>
       ELSE \E o \in HTTPErrorKinds \cup {"open"} :
            LET class == IF o = "open" THEN "ok" ELSE "http_error" IN
            /\ calls' = Append(calls,
                    PostEvent("/v1/inference/stream", strm.req, strm.payload,
                              TimeoutOf(strm.params), class, 0))
            /\ seen' = See(seen, class)
            /\ IF o = "open"
               THEN /\ pc' = "stream_read"
                    /\ result' = result
                    /\ \E body \in StreamBodies, broken \in BOOLEAN :
                         strm' = [strm EXCEPT !.body = body, !.broken = broken,
                                              !.open = TRUE]
               ELSE /\ StreamEnds("raised", "Exception", "Stream inference failed")
                    /\ strm' = IF o = "http_status"
                               THEN ExitStream([strm EXCEPT !.open = TRUE], "raised")
                               ELSE strm
    /\ UNCHANGED <<config, reqs, op, cur, bat, chunks, all_responses,
                   prompt_in, classified,
                   client, dispatched, comp>>

\* The body of `async for line in response.aiter_lines()`, lines 231-240,
\* for one line: what it does with it.  json.loads() of a line that is not
\* JSON raises JSONDecodeError, which is caught; `"token" in data` on a
\* number raises TypeError, which is not.
StreamLine(line) ==
    IF line.kind = "empty" THEN "continue"
    ELSE IF line.kind = "not_json" THEN "continue"
    ELSE IF line.kind = "number" THEN "TypeError"
    ELSE IF line.kind = "token" THEN "yield"
    ELSE IF line.kind = "error" THEN "raise"
    ELSE "continue"

\* The next line of the stream arrives.
stream_line ==
    /\ pc = "stream_read"
    /\ strm.read < Len(strm.body)
    /\ LET line == strm.body[strm.read + 1]
           does == StreamLine(line)
           read == [strm EXCEPT !.read = @ + 1]
       IN  /\ strm' = IF does = "yield"
                      THEN [read EXCEPT !.yielded = Append(@, line.value)]
                      ELSE IF does \in {"raise", "TypeError"}
                      THEN ExitStream(read, "raised")
                      ELSE read
           /\ IF does = "raise"
              THEN StreamEnds("raised", "Exception", line.value)
              ELSE IF does = "TypeError"
              THEN StreamEnds("raised", "TypeError", "")
              ELSE UNCHANGED <<pc, result>>
    /\ UNCHANGED <<config, reqs, op, cur, bat, calls, chunks, seen, all_responses,
                   prompt_in, classified,
                   client, dispatched, comp>>

\* After the last line: aiter_lines() is exhausted and the generator
\* returns, or the connection breaks (an httpx.HTTPError, line 242).
stream_end ==
    /\ pc = "stream_read"
    /\ strm.read = Len(strm.body)
    /\ IF strm.broken
       THEN /\ StreamEnds("raised", "Exception", "Stream inference failed")
            /\ strm' = ExitStream(strm, "raised")
       ELSE /\ StreamEnds("returned", "", "")
            /\ strm' = ExitStream(strm, "returned")
    /\ UNCHANGED <<config, reqs, op, cur, bat, calls, chunks, seen,
                   all_responses, prompt_in, classified,
                   client, dispatched, comp>>

\* The consumer ends the sequence before it is exhausted: aclose() on the
\* generator suspended at `yield` (GeneratorExit is thrown there), or
\* cancellation of the task awaiting the next line (CancelledError).
\* Neither is caught by the except clauses; the `async with` block exits.
stream_aclose ==
    /\ pc = "stream_read"
    /\ \E how \in {"closed", "cancelled"} :
         /\ how = "closed" =>
                /\ strm.read > 0
                /\ StreamLine(strm.body[strm.read]) = "yield"
         /\ StreamEnds(how, IF how = "closed" THEN "GeneratorExit"
                             ELSE "CancelledError", "")
         /\ strm' = ExitStream(strm, how)
    /\ UNCHANGED <<config, reqs, op, cur, bat, calls, chunks, seen,
                   all_responses, prompt_in, classified,
                   client, dispatched, comp>>

---------------------------------------------------------------------------
(* get_cluster_status and close.                                           *)

\* The JSON documents GET /v1/clusters/status answers with.
StatusReports ==
    { [error |-> "", clusters |-> <<>>, remote |-> TRUE],
      [error |-> "", clusters |-> <<"cluster-1", "cluster-2">>, remote |-> TRUE] }

\* GET /v1/clusters/status: an HTTP error, a body that is not JSON, or a
\* status document.
StatusOutcomes ==
    [kind : HTTPErrorKinds \cup {"not_json"}, report : {NoReport}]
    \cup [kind : {"json"}, report : StatusReports]

GetEvent(outcome) ==
    [kind |-> "get", url |-> "/v1/clusters/status", req |-> 0, body |-> <<>>,
     timeout |-> 0, seconds |-> 0, outcome |-> outcome, nresults |-> 0]

\* worker.get_cluster_status(), lines 336-341: the status JSON as it came,
\* or for an httpx.HTTPError the degraded report.  The JSONDecodeError of
\* response.json() and the RuntimeError of a closed client are not
\* httpx.HTTPError.
get_cluster_status ==
    /\ pc = "idle"
    /\ op' = "get_cluster_status"
    /\ pc' = "done"
    /\ IF client = "closed"
       THEN /\ calls' = <<ClosedEvent("/v1/clusters/status")>>
            /\ result' = [NoResult EXCEPT !.status = "raised", !.error = "RuntimeError"]
            /\ seen' = NoneSeen
       ELSE \E o \in StatusOutcomes :
            LET class == IF o.kind \in HTTPErrorKinds THEN "http_error"
                         ELSE IF o.kind = "json" THEN "ok" ELSE "malformed"
            IN  /\ calls' = <<GetEvent(class)>>
                /\ seen' = See(NoneSeen, class)
                /\ result' =
                     IF o.kind \in HTTPErrorKinds
                     THEN [NoResult EXCEPT !.status = "returned",
                              !.report = [error |-> o.kind, clusters |-> <<>>,
                                          remote |-> FALSE]]
                     ELSE IF o.kind = "not_json"
                     THEN [NoResult EXCEPT !.status = "raised",
                                           !.error = "JSONDecodeError"]
                     ELSE [NoResult EXCEPT !.status = "returned", !.report = o.report]
    /\ cur' = NoFrame
    /\ bat' = NoBatch
    /\ strm' = NoStream
    /\ chunks' = <<>>
    /\ all_responses' = <<>>
    /\ UNCHANGED <<config, reqs, prompt_in, classified,
                   client, dispatched, comp>>

\* worker.close(), lines 343-345: `await self.client.aclose()`, whatever
\* calls are under way.
close ==
    /\ client = "open"
    /\ client' = "closed"
    /\ UNCHANGED <<config, reqs, op, pc, cur, bat, strm, calls, chunks, seen,
                   all_responses, result, prompt_in, classified, dispatched, comp>>

---------------------------------------------------------------------------
(* A caller that dispatches the same request object again.                 *)

\* The operation is over; the caller, who still holds the request objects
\* as the worker left them, may assign another prompt to one of them, and
\* starts the next operation.
dispatch_again ==
    /\ pc = "done"
    /\ dispatched + 1 < MaxDispatches
    /\ dispatched' = dispatched + 1
    /\ \E r \in 1..Len(reqs), prompt \in Prompts :
         reqs' = [reqs EXCEPT ![r].prompt = prompt]
    /\ op' = "none"
    /\ pc' = "idle"
    /\ cur' = NoFrame
    /\ bat' = NoBatch
    /\ strm' = NoStream
    /\ calls' = <<>>
    /\ chunks' = <<>>
    /\ seen' = NoneSeen
    /\ all_responses' = <<>>
    /\ result' = NoResult
    /\ UNCHANGED <<config, prompt_in, classified, client, comp>>

---------------------------------------------------------------------------
(* The classifier on its own.                                              *)

\* Pieces of text: keywords of every tier in several cases, pieces that
\* form a keyword only when joined ("w" + "hat", "pro" + "ve"), and text
\* without keywords.
Fragments ==
    { <<"P","r","o","v","e">>, <<"C","O","M","P","L","E","X">>,
      <<"S","o","l","v","e">>, <<"h","o","w">>, <<"W","h","a","t">>,
      <<"d","e","s","c","r","i","b","e">>, <<"h","i"," ">>, <<"w">>,
      <<"h","a","t">>, <<"p","r","o">>, <<"v","e">> }

RECURSIVE Texts(_)
Texts(n) ==
    IF n = 0 THEN { <<>> }
    ELSE Texts(n - 1) \cup { t \o f : t \in Texts(n - 1), f \in Fragments }

ClassifyPrompts == Texts(MaxWords) \cup {PromptSixTimesSeven}

InitClassify ==
    /\ config \in Configs
    /\ reqs = <<>>
    /\ op = "none"
    /\ pc = "idle"
    /\ cur = NoFrame
    /\ bat = NoBatch
    /\ strm = NoStream
    /\ calls = <<>>
    /\ chunks = <<>>
    /\ seen = NoneSeen
    /\ all_responses = <<>>
    /\ result = NoResult
    /\ prompt_in \in ClassifyPrompts
    /\ classified = None
    /\ client = "open"
    /\ dispatched = 0
    /\ comp = NoCompliance

\* worker._determine_difficulty(prompt)
classify ==
    /\ classified = None
    /\ classified' = _determine_difficulty(prompt_in)
    /\ UNCHANGED <<config, reqs, op, pc, cur, bat, strm, calls, chunks, seen,
                   all_responses, result, prompt_in, client, dispatched, comp>>

SpecClassify == InitClassify /\ [][classify]_vars

---------------------------------------------------------------------------
(* ComplianceChecker.check_compliance (kairo/compliance_check.py).         *)

ViolationSeverity == {"low", "medium", "high", "critical"}

ALLOW == "allow"
WARN == "warn"
BLOCK == "block"

\* ComplianceChecker._severity_priority
_severity_priority(severity) ==
    CASE severity = "low" -> 1
      [] severity = "medium" -> 2
      [] severity = "high" -> 3
      [] severity = "critical" -> 4
      [] OTHER -> 0

\* The rules of a guardrails file, each with what _check_rule finds for
\* the input at hand: a severity, the action the rule asks for, and
\* whether the input is compliant with the rule.
Rules == [severity : ViolationSeverity, action : {"block", "warn"}, compliant : BOOLEAN]
RuleLists == UNION { [1..n -> Rules] : n \in 0..MaxRules }

\* An action update in which a medium rule that warns always sets WARN.
ActionAfterLastWins(action, rule) ==
    IF rule.severity \in {"critical", "high"}
    THEN IF rule.action = "block" THEN BLOCK ELSE action
    ELSE IF rule.severity = "medium"
    THEN IF rule.action = "warn" THEN WARN ELSE action
    ELSE action

\* `action` after a violated rule, lines 76-82
ActionAfter(action, rule) ==
    IF rule.severity \in {"critical", "high"}
    THEN IF rule.action = "block" THEN BLOCK ELSE action
    ELSE IF rule.severity = "medium"
    THEN IF action # BLOCK /\ rule.action = "warn" THEN WARN ELSE action
    ELSE action

\* highest_severity after a violated rule, lines 85-86
HighestAfter(highest_severity, severity) ==
    IF highest_severity = None
       \/ _severity_priority(severity) > _severity_priority(highest_severity)
    THEN severity ELSE highest_severity

\* The rule whose message is returned, lines 89-99: max() gives the first
\* of the violations of the highest priority (rule ids are positions);
\* 0 when there is no violation and the message is None.
MessageOf(rules, violations) ==
    IF violations = <<>> THEN 0
    ELSE LET best == CHOOSE n \in 1..Len(violations) :
                 /\ \A m \in 1..Len(violations) :
                      _severity_priority(rules[violations[m]].severity)
                        <= _severity_priority(rules[violations[n]].severity)
                 /\ \A m \in 1..(n - 1) :
                      _severity_priority(rules[violations[m]].severity)
                        < _severity_priority(rules[violations[n]].severity)
         IN  violations[best]

\* checker.check_compliance(user_input, ai_output), lines 58-60
check_compliance ==
    /\ comp.at = "none"
    /\ \E rules \in RuleLists :
         comp' = [NoCompliance EXCEPT !.at = "loop", !.rules = rules]
    /\ UNCHANGED <<config, reqs, op, pc, cur, bat, strm, calls, chunks, seen,
                   all_responses, result, prompt_in, classified, client,
                   dispatched>>

\* One iteration of `for rule in self.rules`, lines 63-86
check_rule ==
    /\ comp.at = "loop"
    /\ comp.k < Len(comp.rules)
    /\ LET rule == comp.rules[comp.k + 1] IN
       comp' = IF rule.compliant
               THEN [comp EXCEPT !.k = @ + 1]
               ELSE [comp EXCEPT
                       !.k = @ + 1,
                       !.violations = Append(@, comp.k + 1),
                       !.action = ActionAfter(@, rule),
                       !.highest_severity = HighestAfter(@, rule.severity)]
    /\ UNCHANGED <<config, reqs, op, pc, cur, bat, strm, calls, chunks, seen,
                   all_responses, result, prompt_in, classified, client,
                   dispatched>>

\* After the loop, lines 88-106: the message and the ComplianceResult
compliance_return ==
    /\ comp.at = "loop"
    /\ comp.k = Len(comp.rules)
    /\ comp' = [comp EXCEPT
                  !.at = "done",
                  !.is_compliant = (Len(comp.violations) = 0),
                  !.message_of = MessageOf(comp.rules, comp.violations)]
    /\ UNCHANGED <<config, reqs, op, pc, cur, bat, strm, calls, chunks, seen,
                   all_responses, result, prompt_in, classified, client,
                   dispatched>>

\* A compliance checker and one call of check_compliance.
InitCompliance ==
    /\ config = [difficulty_levels |-> ScalingTable, batch_size |-> 1]
    /\ reqs = <<>>
    /\ op = "none"
    /\ pc = "idle"
    /\ cur = NoFrame
    /\ bat = NoBatch
    /\ strm = NoStream
    /\ calls = <<>>
    /\ chunks = <<>>
    /\ seen = NoneSeen
    /\ all_responses = <<>>
    /\ result = NoResult
    /\ prompt_in = <<>>
    /\ classified = None
    /\ client = "open"
    /\ dispatched = 0
    /\ comp = NoCompliance

NextCompliance ==
    \/ check_compliance
    \/ check_rule
    \/ compliance_return

SpecCompliance == InitCompliance /\ [][NextCompliance]_vars

---------------------------------------------------------------------------
(* The specifications.                                                     *)

\* A worker streaming one request.
InitStream ==
    /\ config \in Configs
    /\ \E a \in RequestInputs :
         reqs = <<InferenceRequest(a.prompt, a.difficulty, a.temperature,
                                   a.max_tokens)>>
    /\ op = "none"
    /\ pc = "idle"
    /\ cur = NoFrame
    /\ bat = NoBatch
    /\ strm = NoStream
    /\ calls = <<>>
    /\ chunks = <<>>
    /\ seen = NoneSeen
    /\ all_responses = <<>>
    /\ result = NoResult
    /\ prompt_in = <<>>
    /\ classified = None
    /\ client = "open"
    /\ dispatched = 0
    /\ comp = NoCompliance

NextStream ==
    \/ infer_stream
    \/ stream_open
    \/ stream_line
    \/ stream_end

SpecStream == InitStream /\ [][NextStream]_vars

\* A worker of any configuration and a caller who dispatches one request
\* object several times, through any of the three operations.
InitSession ==
    /\ config \in ConfigsAny
    /\ \E a \in RequestInputs :
         reqs = <<InferenceRequest(a.prompt, a.difficulty, a.temperature,
                                   a.max_tokens)>>
    /\ op = "none"
    /\ pc = "idle"
    /\ cur = NoFrame
    /\ bat = NoBatch
    /\ strm = NoStream
    /\ calls = <<>>
    /\ chunks = <<>>
    /\ seen = NoneSeen
    /\ all_responses = <<>>
    /\ result = NoResult
    /\ prompt_in = <<>>
    /\ classified = None
    /\ client = "open"
    /\ dispatched = 0
    /\ comp = NoCompliance

NextSession ==
    \/ infer
    \/ infer_attempt
    \/ batch_infer
    \/ batch_chunk
    \/ batch_fallback
    \/ infer_stream
    \/ stream_open
    \/ stream_line
    \/ stream_end
    \/ dispatch_again

SpecSession == InitSession /\ [][NextSession]_vars

\* A worker streaming one request to a consumer who may close or cancel
\* the sequence.  While the stream is open the generator does not stay
\* where it is for ever: the next line arrives, the stream ends or breaks
\* (the read is bound to the tier's timeout), or the consumer ends it.
NextStreamLive ==
    \/ infer_stream
    \/ stream_open
    \/ stream_line
    \/ stream_end
    \/ stream_aclose

SpecStreamLive ==
    /\ InitStream
    /\ [][NextStreamLive]_vars
    /\ WF_vars(stream_line \/ stream_end \/ stream_aclose)

\* A worker with one request whose caller may close it at any moment.
NextClose ==
    \/ infer
    \/ infer_attempt
    \/ batch_infer
    \/ batch_chunk
    \/ batch_fallback
    \/ infer_stream
    \/ stream_open
    \/ stream_line
    \/ stream_end
    \/ stream_aclose
    \/ get_cluster_status
    \/ close

SpecClose == InitStream /\ [][NextClose]_vars

Next ==
    \/ make_request
    \/ infer
    \/ infer_attempt
    \/ batch_infer
    \/ batch_chunk
    \/ batch_fallback

Spec == Init /\ [][Next]_vars

---------------------------------------------------------------------------
(* Claims.                                                                 *)

\* Every remote call the operation made so far failed with an
\* httpx.HTTPError (transport failure, timeout or HTTP error status).
OnlyHTTPErrors == ~seen.ok /\ ~seen.malformed

\* C1: for maxAttempts >= 1, an infer() all of whose remote calls fail with
\* a transport failure makes exactly maxAttempts calls to /v1/inference,
\* sleeps 2^i between attempt i and attempt i+1 (i from 0), and raises
\* after the last failure without a further sleep.
C1_RetriesThenRaises ==
    (op = "infer" /\ pc = "done" /\ cur.retries >= 1 /\ seen.http_error
        /\ OnlyHTTPErrors /\ WellFormed(config)) =>
    /\ result.status = "raised"
    /\ result.error = "HTTPError"
    /\ Len(calls) = 2 * cur.retries - 1
    /\ \A n \in 1..Len(calls) :
         IF n % 2 = 1
         THEN calls[n].kind = "post" /\ calls[n].url = "/v1/inference"
         ELSE calls[n].kind = "sleep" /\ calls[n].seconds = 2 ^ ((n \div 2) - 1)
    /\ calls[Len(calls)].kind = "post"

\* Three attempts, all failed: post, sleep 1, post, sleep 2, post, raise.
C1_Witness ==
    /\ op = "infer" /\ pc = "done" /\ cur.retries = 3
    /\ OnlyHTTPErrors
    /\ result.status = "raised"
    /\ Len(calls) = 5
    /\ calls[2].seconds = 1 /\ calls[4].seconds = 2

\* C2: with a well-formed configuration, a batch_infer all of whose remote
\* calls (batch calls and fallback single calls) fail with an
\* httpx.HTTPError returns normally with exactly len(requests) responses.
C2_AllFailStillReturnsAll ==
    (op = "batch_infer" /\ pc = "done" /\ OnlyHTTPErrors /\ WellFormed(config)) =>
    /\ result.status = "returned"
    /\ Len(all_responses) = Len(bat.requests)

\* Three requests, every call failed, three responses.
C2_Witness ==
    /\ op = "batch_infer" /\ pc = "done"
    /\ Len(bat.requests) = 3
    /\ seen.http_error /\ OnlyHTTPErrors
    /\ result.status = "returned"
    /\ Len(all_responses) = 3
    /\ \A n \in 1..3 : all_responses[n].cluster_id = "error"

\* C3: when a chunk's batch call comes back malformed (not JSON, no
\* results array, a result without text), batch_infer raises nothing, and
\* returns one response for each input request.
C3_MalformedBatchFallsBack ==
    (op = "batch_infer" /\ seen.batch_malformed) =>
    /\ result.status # "raised"
    /\ pc = "done" => Len(all_responses) = Len(bat.requests)

\* C4: when a chunk's batch call comes back with a results array (of any
\* length) whose items all have text, batch_infer raises nothing and has
\* emitted one response for each request of the chunk, the j-th built from
\* the j-th result and recording the j-th request's difficulty.
C4_OneResponsePerChunkRequest ==
    (op = "batch_infer" /\ Len(calls) = 1
        /\ calls[1].url = "/v1/inference/batch" /\ calls[1].outcome = "ok") =>
    /\ result.status # "raised"
    /\ Len(all_responses) = bat.before + Len(bat.batch)
    /\ \A j \in 1..Len(bat.batch) :
         LET response == all_responses[bat.before + j] IN
         /\ response.index = j
         /\ response.req = bat.batch[j]
         /\ response.difficulty_used = reqs[bat.batch[j]].difficulty

\* What a request's overrides and tier make the sent parameters.
SentAsResolved(sent, request) ==
    /\ sent.temperature =
         IF request.temperature # <<>> THEN request.temperature[1]
         ELSE config.difficulty_levels[request.difficulty].temperature
    /\ sent.max_tokens =
         IF request.max_tokens # <<>> THEN request.max_tokens[1]
         ELSE config.difficulty_levels[request.difficulty].max_tokens

\* C5: on every dispatch path the temperature and max_tokens sent to the
\* remote service are the request's overrides where it carries them, and
\* the tier's defaults only where it does not.
C5_OverridesTakePrecedence ==
    \A n \in 1..Len(calls) :
        calls[n].kind = "post" =>
            IF calls[n].url = "/v1/inference/batch"
            THEN \A k \in 1..Len(calls[n].body.requests) :
                    SentAsResolved(calls[n].body.requests[k],
                                   reqs[calls[n].body.requests[k].req])
            ELSE SentAsResolved(calls[n].body, reqs[calls[n].req])

\* The difficulty a response records is the classifier's, when its
\* request was built without a difficulty.
RecordsClassification(response) ==
    reqs[response.req].arg_difficulty = Unspecified =>
        response.difficulty_used = Classification[reqs[response.req].prompt]

\* C6: a request built without specifying a difficulty is classified from
\* its prompt on its first dispatch: the difficulty recorded in the
\* response is classify(prompt).
C6_UnspecifiedIsClassified ==
    /\ (op = "infer" /\ pc = "done" /\ result.status = "returned") =>
           RecordsClassification(result.response)
    /\ \A n \in 1..Len(all_responses) : RecordsClassification(all_responses[n])

\* C7: the classifier is total, with precedence expert > hard > medium >
\* easy over the keywords found in the lower-cased prompt.
C7_ClassifierPrecedence ==
    classified # None =>
    LET text == Lower(prompt_in)
        expert == \E keyword \in expert_keywords : KeywordIn(keyword, text)
        hard   == \E keyword \in hard_keywords : KeywordIn(keyword, text)
        medium == \E keyword \in medium_keywords : KeywordIn(keyword, text)
    IN  /\ classified \in DifficultyLevel
        /\ expert => classified = EXPERT
        /\ (~expert /\ hard) => classified = HARD
        /\ (~expert /\ ~hard /\ medium) => classified = MEDIUM
        /\ (~expert /\ ~hard /\ ~medium) => classified = EASY

\* A prompt with an expert keyword and a lower-tier keyword is classified expert.
C7_Witness ==
    /\ classified = EXPERT
    /\ AnyKeyword(expert_keywords, Lower(prompt_in))
    /\ AnyKeyword(hard_keywords \cup medium_keywords, Lower(prompt_in))

\* C8 as stated: "What is 6 * 7?" matches no expert, hard or medium
\* keyword and is classified easy.
C8_SixTimesSevenIsEasy ==
    (prompt_in = PromptSixTimesSeven /\ classified # None) =>
    /\ ~AnyKeyword(expert_keywords \cup hard_keywords \cup medium_keywords,
                   Lower(prompt_in))
    /\ classified = EASY

\* C8 as amended: "What is 6 * 7?" lower-cased contains the medium keyword
\* "what" and no expert or hard keyword, and is classified medium.
C8_SixTimesSevenIsMedium ==
    (prompt_in = PromptSixTimesSeven /\ classified # None) =>
    /\ KeywordIn(<<"w","h","a","t">>, Lower(prompt_in))
    /\ ~AnyKeyword(expert_keywords \cup hard_keywords, Lower(prompt_in))
    /\ classified = MEDIUM

C8_Witness == prompt_in = PromptSixTimesSeven /\ classified = MEDIUM

\* ceil(n / b)
CeilDiv(n, b) == (n + b - 1) \div b

\* The number of requests of the batch whose difficulty is d.
GroupSize(d) ==
    Cardinality({n \in 1..Len(bat.requests) : reqs[bat.requests[n]].difficulty = d})

\* The places of the chunks posted: <<chunk, position in the chunk>>.
ChunkPlaces ==
    UNION { { <<c, j>> : j \in 1..Len(chunks[c]) } : c \in 1..Len(chunks) }

\* C9: when batch_infer returns and no call failed, the number of batch
\* calls is the sum over the tiers of ceil(group size / batch_size); every
\* chunk holds 1..batch_size requests of one difficulty; every request is
\* in exactly one chunk; and with results arrays as long as their chunks
\* there is one response for each request.
C9_ChunksPartitionByDifficulty ==
    (op = "batch_infer" /\ pc = "done" /\ result.status = "returned"
        /\ ~seen.http_error /\ WellFormed(config)) =>
    /\ Len(chunks) =
         CeilDiv(GroupSize(EASY), config.batch_size)
         + CeilDiv(GroupSize(MEDIUM), config.batch_size)
         + CeilDiv(GroupSize(HARD), config.batch_size)
         + CeilDiv(GroupSize(EXPERT), config.batch_size)
    /\ \A c \in 1..Len(chunks) :
         /\ Len(chunks[c]) \in 1..config.batch_size
         /\ \A j, k \in 1..Len(chunks[c]) :
              reqs[chunks[c][j]].difficulty = reqs[chunks[c][k]].difficulty
    /\ \A n \in 1..Len(bat.requests) :
         Cardinality({p \in ChunkPlaces : chunks[p[1]][p[2]] = bat.requests[n]}) = 1
    /\ ~seen.misaligned => Len(all_responses) = Len(bat.requests)

\* Three requests of one tier with batch_size 2: two calls, chunks of 2 and
\* 1, three responses.
C9_Witness ==
    /\ op = "batch_infer" /\ pc = "done" /\ result.status = "returned"
    /\ ~seen.http_error /\ ~seen.misaligned
    /\ config.batch_size = 2
    /\ Len(bat.requests) = 3
    /\ Len(bat.groups) = 1
    /\ Len(chunks) = 2
    /\ Len(chunks[1]) = 2 /\ Len(chunks[2]) = 1
    /\ Len(all_responses) = 3

\* The first {"error": ...} record of a body (0: none).
FirstError(body) ==
    IF \E n \in 1..Len(body) : body[n].kind = "error"
    THEN CHOOSE n \in 1..Len(body) :
            body[n].kind = "error" /\ \A m \in 1..(n - 1) : body[m].kind # "error"
    ELSE 0

\* The token values of the token records before the first error record.
TokensBeforeError(body) ==
    LET upto == IF FirstError(body) = 0 THEN Len(body) ELSE FirstError(body) - 1
        tokens == SelectSeq(SubSeq(body, 1, upto), LAMBDA line : line.kind = "token")
    IN  [n \in 1..Len(tokens) |-> tokens[n].value]

\* C10: for every sequence of lines the streaming endpoint emits,
\* infer_stream yields exactly the tokens of the token records before the
\* first error record, in order, and the first error record ends the
\* sequence with a stream error carrying its message.
C10_StreamYieldsTokensUntilError ==
    (op = "infer_stream" /\ pc = "done" /\ seen.ok) =>
    /\ strm.yielded = TokensBeforeError(strm.body)
    /\ FirstError(strm.body) # 0 =>
         /\ result.status = "raised"
         /\ result.error = "Exception"
         /\ result.message = strm.body[FirstError(strm.body)].value

\* The calls to the streaming endpoint in the log.
StreamPosts ==
    {n \in 1..Len(calls) : calls[n].kind = "post" /\ calls[n].url = "/v1/inference/stream"}

\* C11: one infer_stream opens the streaming endpoint at most once and
\* never waits for a backoff; a failed opening (transport failure, timeout,
\* HTTP error status), a broken stream and an error record each end the
\* sequence with an error.
C11_StreamOpensAtMostOnce ==
    op = "infer_stream" =>
    /\ Cardinality(StreamPosts) <= 1
    /\ \A n \in 1..Len(calls) : calls[n].kind # "sleep"
    /\ seen.http_error =>
         /\ pc = "done"
         /\ result.status = "raised" /\ result.error = "Exception"
    /\ (strm.read > 0 /\ strm.body[strm.read].kind = "error") =>
         /\ pc = "done"
         /\ result.status = "raised" /\ result.error = "Exception"
    /\ (pc = "done" /\ strm.broken /\ strm.read = Len(strm.body)
          /\ result.error # "TypeError"
          /\ ~(strm.read > 0 /\ strm.body[strm.read].kind = "error")) =>
         result.status = "raised" /\ result.error = "Exception"

\* The stream broke after two lines were read, and was not opened again.
C11_Witness ==
    /\ op = "infer_stream" /\ pc = "done"
    /\ strm.broken /\ strm.read = 2 /\ Len(strm.body) = 2
    /\ result.status = "raised" /\ result.message = "Stream inference failed"
    /\ Cardinality(StreamPosts) = 1

\* The difficulty a response records is its request's.
RecordsRequestDifficulty(response) ==
    response.difficulty_used = reqs[response.req].difficulty

\* Every response at hand records the difficulty of its request.
ResponsesRecordDifficulty ==
    /\ (op = "infer" /\ pc = "done" /\ result.status = "returned") =>
           RecordsRequestDifficulty(result.response)
    /\ \A n \in 1..Len(all_responses) : RecordsRequestDifficulty(all_responses[n])

\* A step leaves every resolved difficulty as it is.
DifficultyKept ==
    \A r \in 1..Len(reqs) :
        reqs[r].difficulty # None => reqs'[r].difficulty = reqs[r].difficulty

\* C12: once a request's difficulty is resolved (pre-set, or written back
\* by the first dispatch), no later dispatch through infer, infer_stream or
\* batch_infer changes it, even if the prompt was changed in between, and
\* every response records it.
C12_DifficultyResolvedOnce ==
    [](ResponsesRecordDifficulty) /\ [][DifficultyKept]_vars

\* A request passed with difficulty None was classified by an earlier
\* dispatch, got a prompt of another tier, and a later dispatch answered
\* with the difficulty resolved first.
C12_Witness ==
    /\ dispatched >= 1 /\ op = "infer" /\ pc = "done"
    /\ result.status = "returned"
    /\ reqs[1].arg_difficulty = None
    /\ Classification[reqs[1].prompt] # reqs[1].difficulty
    /\ result.response.difficulty_used = reqs[1].difficulty

\* A number followed by the unit suffix "s".
WellFormedTimeout(text) ==
    /\ Len(text) >= 2
    /\ text[Len(text)] = "s"
    /\ IsFloatLiteral(SubSeq(text, 1, Len(text) - 1))

\* The timeout string of the tier of request r.
TierTimeout(r) == config.difficulty_levels[reqs[r].difficulty].timeout

\* C13: a single or streaming call is made only under a timeout string
\* that is a number followed by "s", with that number as its timeout; a
\* dispatch under any other timeout string ends with an error and makes
\* no remote call.
C13_MalformedTimeoutFails ==
    /\ \A n \in 1..Len(calls) :
         (calls[n].kind = "post" /\ calls[n].url # "/v1/inference/batch") =>
            /\ WellFormedTimeout(TierTimeout(calls[n].req))
            /\ calls[n].timeout =
                 FloatValue(SubSeq(TierTimeout(calls[n].req), 1,
                                   Len(TierTimeout(calls[n].req)) - 1))
    /\ (op = "infer" /\ pc = "done" /\ cur.req # 0
           /\ ~WellFormedTimeout(TierTimeout(cur.req))) =>
          result.status = "raised"
    /\ (op = "infer_stream" /\ pc = "done" /\ strm.req # 0
           /\ ~WellFormedTimeout(TierTimeout(strm.req))) =>
          result.status = "raised"

\* Resolving the parameters of request r meets a configuration error: its
\* tier is missing from the table, or the tier's timeout does not parse.
ConfigErrorFor(r) ==
    \/ ~HasTier(reqs[r].difficulty)
    \/ ~TimeoutParses(config.difficulty_levels[reqs[r].difficulty])

\* C14: a configuration error met while dispatching a request is raised
\* to the caller of the operation, without any remote call for that
\* single dispatch, and never becomes a degraded response, on every path
\* including batch_infer's fallback.
C14_ConfigErrorsPropagate ==
    /\ \A n \in 1..Len(all_responses) :
         all_responses[n].cluster_id = "error" => ~ConfigErrorFor(all_responses[n].req)
    /\ (op \in {"infer", "infer_stream"} /\ pc = "done"
           /\ \A r \in 1..Len(reqs) : ConfigErrorFor(r)) =>
          /\ result.status = "raised"
          /\ \A n \in 1..Len(calls) : calls[n].kind # "post"

\* The timeout the tier of request r resolves to.
TierTimeoutValue(r) == TimeoutOf(config.difficulty_levels[reqs[r].difficulty])

\* C15: every outbound inference call (single, streaming, batch chunk) is
\* made with the timeout of the difficulty tier of the request, or of the
\* requests of the chunk, it carries.
C15_TimeoutFromTier ==
    \A n \in 1..Len(calls) :
        calls[n].kind = "post" =>
            IF calls[n].url = "/v1/inference/batch"
            THEN \A k \in 1..Len(calls[n].body.requests) :
                    calls[n].timeout = TierTimeoutValue(calls[n].body.requests[k].req)
            ELSE calls[n].timeout = TierTimeoutValue(calls[n].req)

\* C16: every request body sent to POST /v1/inference carries
\* stream = false, whatever operations the request object went through
\* before.
C16_SinglePayloadNotStreaming ==
    \A n \in 1..Len(calls) :
        (calls[n].kind = "post" /\ calls[n].url = "/v1/inference") =>
            calls[n].body.stream = FALSE

\* C17: get_cluster_status never raises: it returns the remote status JSON
\* as it came, and for every failure of the status call the degraded
\* report with the error message and an empty cluster list.
C17_StatusNeverRaises ==
    (op = "get_cluster_status" /\ pc = "done" /\ client = "open") =>
    /\ result.status = "returned"
    /\ calls[1].outcome = "ok" => result.report \in StatusReports
    /\ calls[1].outcome # "ok" =>
         /\ result.report.error # ""
         /\ result.report.clusters = <<>>

\* C18: the scaling configuration is read-only: no step of infer,
\* infer_stream or batch_infer changes the table, with whatever overrides,
\* so a tier resolves to the same parameters before and after every call.
C18_ConfigReadOnly ==
    [](config \in ConfigsAny) /\ [][config' = config]_vars

\* A second dispatch sent an overridden temperature while the table still
\* holds the tier's default.
C18_Witness ==
    /\ dispatched >= 1 /\ op = "infer" /\ pc = "done" /\ cur.req # 0
    /\ reqs[cur.req].temperature # <<>>
    /\ Len(calls) >= 1
    /\ calls[1].body.temperature = reqs[cur.req].temperature[1]
    /\ config.difficulty_levels[reqs[cur.req].difficulty].temperature
         # reqs[cur.req].temperature[1]

\* A call of the operation in progress was attempted on the closed client
\* after the operation had already made a call on the open one.
RunningCallUsedClosedClient ==
    \E n \in 1..Len(calls) :
        /\ calls[n].kind = "closed"
        /\ n > 1 \/ (op = "batch_infer" /\ Len(chunks) > 0)

\* C19: close() releases the connection only after the calls in flight
\* have completed: no operation that is under way attempts a call on the
\* released connection.
C19_NoUseAfterClose == ~RunningCallUsedClosedClient

\* C20: the streaming connection infer_stream opened is always eventually
\* released: when the sequence ends normally, when it ends with an error,
\* and when the consumer closes or cancels it before it is exhausted.
C20_StreamEventuallyReleased == strm.open ~> ~strm.open

\* The consumer closed the sequence after the first token, with lines
\* still to come, and the connection is released.
C20_Witness ==
    /\ op = "infer_stream" /\ pc = "done"
    /\ result.status = "closed"
    /\ strm.read = 1 /\ Len(strm.body) > 1
    /\ Len(strm.yielded) = 1
    /\ ~strm.open

\* The rules among the first k that the input violates, as a set.
ViolatedRules(k) == { comp.rules[j] : j \in {i \in 1..k : ~comp.rules[i].compliant} }

\* The action a set of violated rules calls for.
ActionFor(violated) ==
    IF \E rule \in violated :
          rule.severity \in {"high", "critical"} /\ rule.action = "block"
    THEN BLOCK
    ELSE IF \E rule \in violated : rule.severity = "medium" /\ rule.action = "warn"
    THEN WARN
    ELSE ALLOW

\* C21: in check_compliance the action is a function of the set of rules
\* violated so far, whatever their order: block if one of them has
\* severity high or critical and action "block", else warn if one has
\* severity medium and action "warn", else allow (so a block is never
\* downgraded by a later rule); is_compliant holds exactly when no rule
\* is violated.
C21_ActionOfViolatedSet ==
    comp.at \in {"loop", "done"} =>
    /\ comp.action = ActionFor(ViolatedRules(comp.k))
    /\ comp.at = "done" =>
         /\ comp.k = Len(comp.rules)
         /\ comp.is_compliant = (ViolatedRules(Len(comp.rules)) = {})

\* A blocking rule was violated first and a warning medium rule after it:
\* the action returned is block.
C21_Witness ==
    /\ comp.at = "done" /\ Len(comp.rules) = 3
    /\ ~comp.rules[1].compliant /\ comp.rules[1].severity = "critical"
    /\ comp.rules[1].action = "block"
    /\ ~comp.rules[2].compliant /\ comp.rules[2].severity = "medium"
    /\ comp.rules[2].action = "warn"
    /\ comp.action = BLOCK /\ ~comp.is_compliant

\* The remote calls of the log.
Posts == { n \in 1..Len(calls) : calls[n].kind = "post" }

\* C22: infer() raises an error caused by the remote service (an
\* httpx.HTTPError, or a body that is not JSON or lacks "text") only after
\* all `retries` attempts have been made.
C22_RemoteErrorsAfterAllAttempts ==
    (op = "infer" /\ pc = "done" /\ result.status = "raised"
        /\ result.error \in {"HTTPError", "JSONDecodeError", "KeyError"}
        /\ Posts # {}) =>
    Cardinality(Posts) = cur.retries

\* The requests of the chunks posted, in the order in which they were sent.
RECURSIVE Flatten(_)
Flatten(seqs) ==
    IF Len(seqs) = 0 THEN <<>>
    ELSE Flatten(SubSeq(seqs, 1, Len(seqs) - 1)) \o seqs[Len(seqs)]

\* C23: in a batch_infer all of whose remote calls fail with an
\* httpx.HTTPError, every chunk is posted to /v1/inference/batch exactly
\* once (the calls are as many as the chunks of the groups, and no request
\* is posted twice), every fallback infer() runs with 3 attempts and ends
\* after 3 calls to /v1/inference, and at the end there is exactly one
\* fallback response for each request of each chunk, in the chunks' order:
\* a failed fallback stops neither the rest of its chunk nor later chunks.
C23_FailedChunkNotRetried ==
    (op = "batch_infer" /\ OnlyHTTPErrors /\ WellFormed(config)) =>
    /\ \A c, d \in 1..Len(chunks) :
         c # d => \A j \in 1..Len(chunks[c]), k \in 1..Len(chunks[d]) :
                    chunks[c][j] # chunks[d][k]
    /\ (pc = "infer_post" /\ cur.nested) => cur.retries = 3
    /\ (pc # "infer_post" /\ calls # <<>> /\ calls[1].url = "/v1/inference") =>
         /\ Len(calls) = 5
         /\ \A n \in Posts :
              /\ calls[n].url = "/v1/inference"
              /\ calls[n].req = all_responses[Len(all_responses)].req
         /\ Cardinality(Posts) = 3
    /\ pc = "done" =>
         /\ result.status = "returned"
         /\ Len(chunks) =
              CeilDiv(GroupSize(EASY), config.batch_size)
              + CeilDiv(GroupSize(MEDIUM), config.batch_size)
              + CeilDiv(GroupSize(HARD), config.batch_size)
              + CeilDiv(GroupSize(EXPERT), config.batch_size)
         /\ [n \in 1..Len(all_responses) |-> all_responses[n].req] = Flatten(chunks)
         /\ \A r \in 1..Len(bat.requests) :
              Cardinality({n \in 1..Len(all_responses) :
                              all_responses[n].req = bat.requests[r]}) = 1

\* Three requests in two chunks, every call failed: two batch calls and a
\* fallback for each of the three requests, the last one after 3 attempts.
C23_Witness ==
    /\ op = "batch_infer" /\ pc = "done" /\ seen.http_error /\ OnlyHTTPErrors
    /\ Len(bat.requests) = 3
    /\ Len(chunks) = 2 /\ Len(chunks[1]) = 2
    /\ Len(all_responses) = 3
    /\ Cardinality(Posts) = 3 /\ Len(calls) = 5

\* The log is that of a fallback infer() of batch_infer that has ended.
FallbackEnded ==
    /\ op = "batch_infer" /\ pc # "infer_post"
    /\ calls # <<>> /\ calls[1].url = "/v1/inference"

\* The fallback infer() that ended last failed: its last call did not
\* come back with a body that has text.
FallbackFailed == FallbackEnded /\ calls[Len(calls)].outcome # "ok"

\* The response is the degraded response of its request.
IsDegraded(response) ==
    response = ErrorResponse(response.req, reqs[response.req].difficulty)

\* When a fallback infer() of batch_infer fails, the response appended is
\* the degraded response: text "Error...", cluster_id "error", latency 0,
\* tokens_generated 0 and the request's own difficulty.
DegradedWhenFallbackFails ==
    FallbackFailed =>
        LET response == all_responses[Len(all_responses)] IN
        /\ IsDegraded(response)
        /\ response.req = calls[1].req
        /\ response.text = "Error" /\ response.cluster_id = "error"
        /\ response.latency_ms = 0 /\ response.tokens_generated = 0

\* C24: the response emitted for a batch request whose fallback infer()
\* failed is the degraded response (error text, cluster_id "error",
\* latency 0, tokens_generated 0, the request's difficulty), and no other
\* response, of batch_infer or of infer, has cluster_id "error".
C24_ErrorSentinelOnlyWhenDegraded ==
    /\ DegradedWhenFallbackFails
    /\ \A n \in 1..Len(all_responses) :
         all_responses[n].cluster_id = "error" => IsDegraded(all_responses[n])
    /\ (op = "infer" /\ pc = "done" /\ result.status = "returned") =>
         result.response.cluster_id # "error"

\* C25: infer() returns a response exactly when its last call came back
\* with a body that has text; the response takes model, cluster_id and
\* tokens_generated from the body, or the worker's model, "unknown" and 0
\* where the body lacks them, and records the request's difficulty.
C25_SuccessNeedsTextDefaultsFill ==
    (op = "infer" /\ pc = "done") =>
    /\ result.status = "returned" <=>
         (calls # <<>> /\ calls[Len(calls)].kind = "post"
            /\ calls[Len(calls)].outcome = "ok")
    /\ result.status = "returned" =>
         LET data == seen.data
             response == result.response
         IN  /\ data.has_text
             /\ response.model = IF data.model = "" THEN SelfModel ELSE data.model
             /\ response.cluster_id =
                  IF data.cluster_id = "" THEN "unknown" ELSE data.cluster_id
             /\ response.tokens_generated =
                  IF data.tokens_generated = <<>> THEN 0 ELSE data.tokens_generated[1]
             /\ response.req = cur.req
             /\ response.difficulty_used = reqs[cur.req].difficulty

\* A body with text and nothing else: infer() returned with the defaults.
C25_Witness ==
    /\ op = "infer" /\ pc = "done" /\ result.status = "returned"
    /\ seen.data = TextOnlyBody
    /\ result.response.model = SelfModel
    /\ result.response.cluster_id = "unknown"
    /\ result.response.tokens_generated = 0
    /\ result.response.difficulty_used = reqs[cur.req].difficulty

\* The place in the input of the first request of difficulty d.
FirstOccurrence(d) ==
    CHOOSE n \in 1..Len(bat.requests) :
        /\ reqs[bat.requests[n]].difficulty = d
        /\ \A m \in 1..(n - 1) : reqs[bat.requests[m]].difficulty # d

\* The m-th input request comes before the n-th in the stable grouping by
\* difficulty: its difficulty occurs first, or they share it and m < n.
Precedes(m, n) ==
    LET dm == reqs[bat.requests[m]].difficulty
        dn == reqs[bat.requests[n]].difficulty
    IN  IF dm = dn THEN m < n ELSE FirstOccurrence(dm) < FirstOccurrence(dn)

\* The place of the n-th input request in the stable grouping.
StablePlace(n) == 1 + Cardinality({m \in 1..Len(bat.requests) : Precedes(m, n)})

\* The k-th response belongs to the k-th request of the stable grouping.
MappedByPosition ==
    /\ Len(all_responses) = Len(bat.requests)
    /\ \A n \in 1..Len(bat.requests) :
         /\ StablePlace(n) <= Len(all_responses)
         /\ all_responses[StablePlace(n)].req = bat.requests[n]

\* With results arrays as long as their chunks, the list returned is in
\* the order of the stable grouping, whichever chunks fell back.
MappedByPositionWhenAligned ==
    (op = "batch_infer" /\ pc = "done" /\ result.status = "returned"
        /\ ~seen.misaligned) => MappedByPosition

\* C26: the list batch_infer returns maps back to the input by position:
\* the responses are grouped by difficulty in the order in which each
\* difficulty first occurs in the input, within a group in input order,
\* whichever chunks succeeded and whichever fell back, so that the k-th
\* response belongs to the k-th request of that grouping.
C26_ResponsesMapByPosition ==
    (op = "batch_infer" /\ pc = "done" /\ result.status = "returned") =>
        MappedByPosition

====
